---------------------------- MODULE Spec2Model ----------------------------
(***************************************************************************)
(* Model of the GraphRAG retrieval-and-synthesis engine of the backend:    *)
(* backend/services/graphrag.py (Neo4jGraphRAGService), the shared helpers *)
(* of backend/utils/graphrag_utils.py and the embedding gateway of         *)
(* backend/services/embedding.py.                                          *)
(*                                                                         *)
(* Conventions                                                             *)
(*  - a confidence is an integer number of hundredths (0.95 is 95);        *)
(*  - a text is a record: pad white-space characters around a core of      *)
(*    core characters, the indicator phrases it contains written in lower  *)
(*    case (lc) and those it contains written with capitals (uc), and      *)
(*    whether it ends with a full stop (dot);                              *)
(*  - a Python dict is a sequence of entries in insertion order;           *)
(*  - a vector index is the sequence of its nodes ranked by descending     *)
(*    similarity to the query vector of the request: choosing the query    *)
(*    vector is choosing the ranking.                                      *)
(***************************************************************************)
EXTENDS Integers, Sequences, FiniteSets, TLC

VARIABLES
    \* ---- one execution of Neo4jGraphRAGService.query_user_data ----
    pc,             \* position in query_user_data
    llm,            \* self.llm is set (Anthropic key configured at construction)
    store,          \* category index name -> ranked nodes of that vector index
    available,      \* available_indexes: dict index name -> count, or Null
    probe_failed,   \* the indexes whose content-check query raised
    embedding,      \* query_embedding: "unset", "vector" or "none" (Python None)
    embed_outcome,  \* how generate_embedding ended
    pos,            \* position of the loop over available_indexes.keys()
    all_results,    \* all_results
    insights,       \* all_insights handed to _synthesize_unified_response
    trace,          \* the calls made to collaborators, in order
    result,         \* the GraphRAGResult returned, or Null
    \* ---- the vector index searcher and the probe on one index ----
    idx,            \* the ranked nodes of one vector index
    s_user,         \* the owner the probe and the search are scoped to
    s_count,        \* what the content-check query returned, or -1
    s_ok,           \* whether the store answered the search query
    s_found,        \* what _direct_vector_search returned
    s_ctx,          \* context_items of _generate_response_from_content
    s_gen,          \* what _generate_response_from_content did with s_found
    s_pc,
    \* ---- the confidence scorer and the post-filter as functions ----
    c_results,      \* results handed to calculate_dynamic_confidence
    c_avail,        \* available_indexes handed to it
    c_impl,         \* implementation_type
    c_conf,         \* the confidence returned, or -1
    c_base,         \* base_confidence it chose
    c_length,       \* what the average response length added to quality_bonus
    c_penalty,      \* the penalty for generic responses it applied
    c_retrieval,    \* what the retrieval metrics added to quality_bonus
    c_empty,        \* per result, what _is_empty_response says of its text
    c_pc,
    \* ---- compare_graphrag_implementations ----
    h_pc,           \* position in the handler
    h_task,         \* per pipeline: "created", "running" or "finished"
    h_out,          \* per pipeline: what gather collected for it, or Null
    h_response,     \* the GraphRAGComparisonResponse returned, or Null
    \* ---- POST /chat/ ----
    ch_pc,          \* position in the chain chat_with_persona .. handler
    ch_message,     \* request.message
    ch_context,     \* how get_user_context ended
    ch_prompt,      \* how prompt_template.render ended
    ch_response,    \* what generate_sage_response returned
    ch_memory,      \* how _process_intelligent_memory ended
    ch_http,        \* the HTTP response, or Null
    \* ---- the synchronous drivers of the services built per request ----
    d_next,         \* the number of requests received
    d_inflight,     \* the requests being handled
    d_done,         \* the requests completed
    d_open          \* the drivers opened and not closed, with their request

vars == <<pc, llm, store, available, probe_failed, embedding, embed_outcome,
          pos, all_results, insights, trace, result,
          idx, s_user, s_count, s_ok, s_found, s_ctx, s_gen, s_pc,
          c_results, c_avail, c_impl, c_conf, c_base, c_length, c_penalty,
          c_retrieval, c_empty, c_pc,
          h_pc, h_task, h_out, h_response,
          ch_pc, ch_message, ch_context, ch_prompt, ch_response, ch_memory,
          ch_http,
          d_next, d_inflight, d_done, d_open>>

queryVars == <<pc, llm, store, available, probe_failed, embedding,
               embed_outcome, pos, all_results, insights, trace, result>>
searchVars == <<idx, s_user, s_count, s_ok, s_found, s_ctx, s_gen, s_pc>>
compareVars == <<h_pc, h_task, h_out, h_response>>
chatVars == <<ch_pc, ch_message, ch_context, ch_prompt, ch_response,
              ch_memory, ch_http>>
driverVars == <<d_next, d_inflight, d_done, d_open>>
scoreVars == <<c_results, c_avail, c_impl, c_conf, c_base, c_length,
               c_penalty, c_retrieval, c_empty, c_pc>>

Null == "null"

(***************************************************************************)
(* Sequences helpers                                                       *)
(***************************************************************************)
Range(s) == {s[i] : i \in DOMAIN s}

RECURSIVE SumSeq(_)
SumSeq(s) == IF s = <<>> THEN 0 ELSE Head(s) + SumSeq(Tail(s))

\* [f(x) for x in s]
MapSeq(s, F(_)) == [i \in DOMAIN s |-> F(s[i])]

\* s[:n]
Take(s, n) == SubSeq(s, 1, IF Len(s) < n THEN Len(s) ELSE n)

Min2(a, b) == IF a < b THEN a ELSE b
Max2(a, b) == IF a > b THEN a ELSE b

(***************************************************************************)
(* Texts                                                                   *)
(***************************************************************************)
\* the phrase list of _is_empty_response
empty_indicators ==
    {"no context or data provided", "no information available",
     "cannot provide specific information",
     "no records associated with this user", "no therapy data",
     "no relevant data", "insufficient information"}

\* the phrase list of calculate_dynamic_confidence
generic_indicators ==
    {"no relevant information", "not found", "insufficient data",
     "no therapy data"}

\* dot: the core ends with a full stop
Text(core, pad, lc, uc, dot) ==
    [core |-> core, pad |-> pad, lc |-> lc, uc |-> uc, dot |-> dot]

EmptyText == Text(0, 0, {}, {}, FALSE)

\* len(text)
TextLen(t) == t.pad + t.core

\* bool(text): a Python string is true when it is not empty
Truthy(t) == TextLen(t) > 0

\* text.strip()
Strip(t) == [t EXCEPT !.pad = 0]

\* text.lower(): a phrase written with capitals now reads in lower case
Lower(t) == [t EXCEPT !.lc = t.lc \cup t.uc, !.uc = {}]

\* phrase in text (case-sensitive substring test against a lower-case phrase)
Contains(t, phrase) == phrase \in t.lc


(***************************************************************************)
(* graphrag_utils.py                                                       *)
(***************************************************************************)
\* the five vector indexes, in the order get_user_content_check_queries
\* declares them
therapy_indexes ==
    <<"therapy_moments_index", "user_reflections_index",
      "therapist_notes_index", "behavior_patterns_index",
      "user_values_index">>

Categories == Range(therapy_indexes)

\* the technical name of an index left as it is
index_name_unchanged(index_name) == index_name

index_name_to_friendly(index_name) ==
    CASE index_name = "therapy_moments_index" -> "Therapy Moments"
      [] index_name = "user_reflections_index" -> "User Reflections"
      [] index_name = "therapist_notes_index" -> "Therapist Notes"
      [] index_name = "behavior_patterns_index" -> "Behavior Patterns"
      [] index_name = "user_values_index" -> "User Values"
      \* any other name: '_index' dropped, '_' to ' ', title-cased
      [] OTHER -> <<"title", index_name>>

\* one entry of all_results; a key the dict does not hold reads as its
\* .get() default (the empty string, 0)
ResultData(index, response, answer, content_count, retrieved_items) ==
    [index |-> index, response |-> response, answer |-> answer,
     source |-> index_name_to_friendly(index),
     content_count |-> content_count, retrieved_items |-> retrieved_items]

\* one entry of the available_indexes dict
Entry(index, count) == [index |-> index, count |-> count]

\* the text of a result the scorer reads: 'response' for the custom
\* implementation, 'answer' for the official one
ScoredText(res, implementation_type) ==
    IF implementation_type = "custom" THEN res.response ELSE res.answer

\* base_confidence taken from the number of sources in every mode
BaseConfidenceByCount(results, available_indexes, implementation_type) ==
    IF Len(results) >= 4 THEN 85
    ELSE IF Len(results) = 3 THEN 75
    ELSE IF Len(results) = 2 THEN 65
    ELSE 55

\* base_confidence; coverage_ratio >= 0.8 is 10 * num_sources >= 8 * total
BaseConfidence(results, available_indexes, implementation_type) ==
    LET num_sources == Len(results)
        total_available == Max2(Len(available_indexes), 1)
    IN  IF implementation_type = "custom" /\ available_indexes # <<>>
        THEN IF 10 * num_sources >= 8 * total_available THEN 85
             ELSE IF 10 * num_sources >= 6 * total_available THEN 75
             ELSE IF 10 * num_sources >= 4 * total_available THEN 65
             ELSE 55
        ELSE IF num_sources >= 4 THEN 85
             ELSE IF num_sources = 3 THEN 75
             ELSE IF num_sources = 2 THEN 65
             ELSE 55

\* the bonus of the average response length with its upper bands closed
\* below (avg_length >= 300, avg_length >= 150)
LengthBonusInclusive(results, implementation_type) ==
    LET num_sources == Len(results)
        Length(res) == TextLen(ScoredText(res, implementation_type))
        total_length == SumSeq(MapSeq(results, Length))
    IN  IF total_length >= 300 * num_sources THEN 10
        ELSE IF total_length >= 150 * num_sources THEN 5
        ELSE IF total_length < 50 * num_sources THEN -10
        ELSE 0

\* the bonus of the average response length
\* (avg_length > 300 is total_length > 300 * num_sources)
LengthBonus(results, implementation_type) ==
    LET num_sources == Len(results)
        Length(res) == TextLen(ScoredText(res, implementation_type))
        total_length == SumSeq(MapSeq(results, Length))
    IN  IF total_length > 300 * num_sources THEN 10
        ELSE IF total_length > 150 * num_sources THEN 5
        ELSE IF total_length < 50 * num_sources THEN -10
        ELSE 0

\* has_generic: some response, in lower case, contains a generic indicator
HasGeneric(results, implementation_type) ==
    \E i \in DOMAIN results :
        \E indicator \in generic_indicators :
            Contains(Lower(ScoredText(results[i], implementation_type)),
                     indicator)

GenericPenalty(results, implementation_type) ==
    IF HasGeneric(results, implementation_type) THEN -15 ELSE 0

\* the retrieval metrics applied whatever the implementation
RetrievalBonusEveryMode(results, available_indexes, implementation_type) ==
    LET num_sources == Len(results)
        Retrieved(res) == res.retrieved_items
        Count(e) == e.count
        total_items == SumSeq(MapSeq(results, Retrieved))
        total_content == SumSeq(MapSeq(available_indexes, Count))
    IN  (IF total_items >= 3 * num_sources THEN 10
         ELSE IF total_items >= 2 * num_sources THEN 5
         ELSE IF total_items < num_sources THEN -10
         ELSE 0)
        + (IF total_content >= 10 THEN 5
           ELSE IF total_content < 3 THEN -5
           ELSE 0)

\* the retrieval metrics of the custom implementation
RetrievalBonus(results, available_indexes, implementation_type) ==
    LET num_sources == Len(results)
        Retrieved(res) == res.retrieved_items
        Count(e) == e.count
        total_items == SumSeq(MapSeq(results, Retrieved))
        total_content == SumSeq(MapSeq(available_indexes, Count))
        items_bonus == IF total_items >= 3 * num_sources THEN 10
                       ELSE IF total_items >= 2 * num_sources THEN 5
                       ELSE IF total_items < num_sources THEN -10
                       ELSE 0
        content_bonus == IF total_content >= 10 THEN 5
                         ELSE IF total_content < 3 THEN -5
                         ELSE 0
    IN  IF implementation_type = "custom" /\ available_indexes # <<>>
        THEN items_bonus + content_bonus
        ELSE 0

\* the scorer with the lower half of its clamp only
ClampFromBelow(final_confidence) == Max2(final_confidence, 10)

\* the scorer without its final clamp
ClampMissing(final_confidence) == final_confidence

\* min(max(final_confidence, 0.1), 0.95)
Clamp(final_confidence) == Min2(Max2(final_confidence, 10), 95)

calculate_dynamic_confidence(results, available_indexes, implementation_type) ==
    IF results = <<>>
    THEN 10
    ELSE Clamp(BaseConfidence(results, available_indexes, implementation_type)
               + LengthBonus(results, implementation_type)
               + GenericPenalty(results, implementation_type)
               + RetrievalBonus(results, available_indexes,
                                implementation_type))

(***************************************************************************)
(* graphrag.py: the post-filter                                            *)
(***************************************************************************)
is_empty_response(response_text) ==
    \E indicator \in empty_indicators :
        Contains(Lower(response_text), indicator)

(***************************************************************************)
(* The store: nodes of one node type, and its vector index                 *)
(***************************************************************************)
\* top_k of the call of _direct_vector_search in query_user_data
TopK == 5

\* the grounding context uses relevant_content[:3]
ContextTop == 3

\* a content is meaningful when len(content.strip()) > 10
MinContentLen == 10

\* a stored node: its owner, its content property (the empty text also
\* stands for a missing property: both are false in Python) and whether its
\* embedding property is set
Node(user_id, content, has_embedding) ==
    [user_id |-> user_id, content |-> content, has_embedding |-> has_embedding]

\* MATCH (n:Type {user_id: $user_id}) WHERE n.<embedding> IS NOT NULL
\* RETURN count(n)
ContentCount(nodes, user_id) ==
    LET Mine(n) == n.user_id = user_id /\ n.has_embedding
    IN  Len(SelectSeq(nodes, Mine))

\* CALL db.index.vector.queryNodes(index, top_k, query_embedding): the top_k
\* nearest nodes of the index, whoever owns them; a node without an
\* embedding is not in the index
QueryNodes(nodes, top_k) ==
    LET Indexed(n) == n.has_embedding
    IN  Take(SelectSeq(nodes, Indexed), top_k)

\* the search without its WHERE clause
WhereUserMissing(hits, user_id) == hits

\* ... YIELD node, score WHERE node.user_id = $user_id
WhereUser(hits, user_id) ==
    LET Mine(n) == n.user_id = user_id
    IN  SelectSeq(hits, Mine)

\* the loop of _direct_vector_search: if record["content"]
NonEmptyContent(records) ==
    LET Kept(n) == Truthy(n.content)
    IN  SelectSeq(records, Kept)

\* _direct_vector_search; the store raises for a query vector that is None
\* and whenever it is unreachable (store_ok false): both end in return []
direct_vector_search(nodes, user_id, query_embedding, top_k, store_ok) ==
    IF ~store_ok \/ query_embedding # "vector"
    THEN <<>>
    ELSE NonEmptyContent(WhereUser(QueryNodes(nodes, top_k), user_id))

\* a grounding context built from every retrieved item
ContextItemsAll(relevant_content) ==
    LET Meaningful(n) == /\ Truthy(Strip(n.content))
                         /\ TextLen(Strip(n.content)) > 10
    IN  SelectSeq(relevant_content, Meaningful)

\* context_items of _generate_response_from_content
ContextItems(relevant_content) ==
    LET Meaningful(n) == /\ Truthy(Strip(n.content))
                         /\ TextLen(Strip(n.content)) > MinContentLen
    IN  SelectSeq(Take(relevant_content, ContextTop), Meaningful)

\* a probe that fills its dict from the last content-check query to the
\* first
ContentInIndexesBackwards(st, user_id) ==
    LET HasContent(index) == ContentCount(st[index], user_id) > 0
        AsEntry(index) == Entry(index, ContentCount(st[index], user_id))
        found == MapSeq(SelectSeq(therapy_indexes, HasContent), AsEntry)
    IN  [k \in DOMAIN found |-> found[Len(found) + 1 - k]]

\* _check_user_content_in_indexes when every content-check query succeeds:
\* the dict of the indexes with count > 0, in the order of the queries
ContentInIndexes(st, user_id) ==
    LET HasContent(index) == ContentCount(st[index], user_id) > 0
        AsEntry(index) == Entry(index, ContentCount(st[index], user_id))
    IN  MapSeq(SelectSeq(therapy_indexes, HasContent), AsEntry)

\* _check_user_content_in_indexes: one try around the whole loop, so the
\* first query that raises ends the loop; the handler then reads
\* self.graphrag_instances, which no code ever sets, and raises in turn
check_user_content_in_indexes(st, user_id, failing) ==
    IF failing = {} THEN ContentInIndexes(st, user_id) ELSE "raise"

\* list(available_indexes.keys())
Keys(available_indexes) ==
    LET Index(e) == e.index
    IN  MapSeq(available_indexes, Index)

(***************************************************************************)
(* embedding.py                                                            *)
(***************************************************************************)
\* how the embedding gateway can end for a non-empty text: the vector, the
\* service not initialised (no key: the embedder is never called), or the
\* call of the embedder raising
EmbedOutcomes == {"ok", "not_initialized", "call_error"}

\* an embedder that answers a vector whatever happened
generate_embedding_anyway(outcome) == "vector"

\* EmbeddingService.generate_embedding: every failure is caught and
\* answered with None
generate_embedding(outcome) ==
    IF outcome = "ok" THEN "vector" ELSE "none"

\* whether generate_embedding reached embedder.embed_query
EmbedderCalled(outcome) == outcome # "not_initialized"

(***************************************************************************)
(* graphrag.py: the results query_user_data can return                     *)
(***************************************************************************)
GraphRAGResult(kind, natural_response, confidence, data_sources) ==
    [kind |-> kind, natural_response |-> natural_response,
     confidence |-> confidence, data_sources |-> data_sources]

\* a fixed message of the service
Message(form, detail) == [form |-> form, detail |-> detail]

create_error_result(error_message) ==
    GraphRAGResult("error", Message("error", error_message), 0, <<>>)

\* a fallback result that reports no confidence at all
fallback_query_unscored ==
    GraphRAGResult("fallback", Message("graphrag_unavailable", Null), 0,
                   <<"Fallback - GraphRAG unavailable">>)

fallback_query ==
    GraphRAGResult("fallback", Message("graphrag_unavailable", Null), 10,
                   <<"Fallback - GraphRAG unavailable">>)

\* the no-data result with the confidence of an error
NoContentResultZero ==
    GraphRAGResult("no_content", Message("no_content", Null), 0, <<>>)

NoContentResult ==
    GraphRAGResult("no_content", Message("no_content", Null), 95, <<>>)

\* the no-insight result with the confidence the scorer gives an empty list
NoInsightResultScored(available_indexes) ==
    GraphRAGResult("no_insight", Message("no_insight", Null),
                   calculate_dynamic_confidence(<<>>, available_indexes,
                                                "custom"),
                   Keys(available_indexes))

NoInsightResult(available_indexes) ==
    GraphRAGResult("no_insight", Message("no_insight", Null), 25,
                   Keys(available_indexes))

(***************************************************************************)
(* graphrag.py: responder and synthesizer                                  *)
(***************************************************************************)
\* _call_llm_directly answers "" when the call raises: a reply of the
\* generation capability is a text, EmptyText for a failed call

\* _generate_response_from_content: whether the generation capability is
\* called, and the text returned
generate_response_from_content(relevant_content, reply) ==
    IF relevant_content = <<>> \/ ContextItems(relevant_content) = <<>>
    THEN [called |-> FALSE, text |-> EmptyText]
    ELSE [called |-> TRUE, text |-> Strip(reply)]

\* a response of more than 20 characters is meaningful
MinInsightLen == 20

\* a synthesis of more than 50 characters is accepted
MinSynthesisLen == 50

\* the template restates insights[:3]
SummaryTop == 3

\* all_insights of _create_structured_response
AllInsights(results) ==
    LET Meaningful(res) == /\ Truthy(Strip(res.response))
                           /\ TextLen(Strip(res.response)) > MinInsightLen
    IN  SelectSeq(results, Meaningful)

\* clean_insight of _create_fallback_summary: stripped, a full stop added
\* when it ends with none
CleanInsight(insight) ==
    LET clean == Strip(insight)
    IN  IF clean.dot THEN clean
        ELSE [clean EXCEPT !.core = clean.core + 1, !.dot = TRUE]

\* _create_fallback_summary: the template over the first three insights
create_fallback_summary(ins) ==
    LET Meaningful(res) == /\ Truthy(res.response)
                           /\ TextLen(Strip(res.response)) > MinInsightLen
        Bullet(res) == CleanInsight(res.response)
        Source(res) == <<res.source, res.content_count>>
    IN  [form |-> "template",
         bullets |-> MapSeq(SelectSeq(Take(ins, SummaryTop), Meaningful),
                            Bullet),
         sources |-> MapSeq(ins, Source)]

\* _synthesize_unified_response, given the reply of the generation call
synthesize_unified_response(ins, reply) ==
    IF Truthy(reply) /\ TextLen(Strip(reply)) > MinSynthesisLen
    THEN [form |-> "synthesized", text |-> Strip(reply), footer |-> Len(ins)]
    ELSE create_fallback_summary(ins)

(***************************************************************************)
(* The inputs of the model                                                 *)
(***************************************************************************)
\* the owner queried, and another owner of the same store
User == "alice"
Other == "bob"
Owners == {User, Other}

LongContent == Text(40, 0, {}, {}, TRUE)
ShortContent == Text(5, 2, {}, {}, FALSE)

\* the ranked nodes of one node type the query runs against: none; one node
\* of the owner; five nodes of the owner; one node of the owner ranked
\* behind five nodes of another owner
OneNode == <<Node(User, LongContent, TRUE)>>
FiveNodes == [i \in 1..5 |-> Node(User, LongContent, TRUE)]
CrowdedNodes == [i \in 1..5 |-> Node(Other, LongContent, TRUE)] \o OneNode
IndexSamples == {<<>>, OneNode, FiveNodes, CrowdedNodes}

\* at most this many node types hold nodes of the owner
MaxPopulated == 3

\* the owner has at most this many nodes in all
MaxOwnerNodes == 7

Stores ==
    {st \in [Categories -> IndexSamples] :
        /\ Cardinality({c \in Categories : st[c] # <<>>}) <= MaxPopulated
        /\ SumSeq([k \in DOMAIN therapy_indexes |->
                      ContentCount(st[therapy_indexes[k]], User)])
           <= MaxOwnerNodes}

\* the replies of the generation capability: a failed call or an empty
\* reply; a detailed and a moderate answer; an answer that says "no relevant
\* information"; one that says "No relevant data"; a very short one; a
\* detailed answer that says something was "not found"
DetailedReply == Text(400, 0, {}, {}, TRUE)
ModerateReply == Text(100, 2, {}, {}, FALSE)
NoInformationReply == Text(44, 1, {"no relevant information"}, {}, TRUE)
NoDataReply == Text(40, 0, {}, {"no relevant data"}, TRUE)
TerseReply == Text(15, 0, {}, {}, FALSE)
NotFoundReply == Text(400, 0, {"not found"}, {}, TRUE)
LlmReplies ==
    {EmptyText, DetailedReply, ModerateReply, NoInformationReply,
     NoDataReply, TerseReply, NotFoundReply}

\* the replies to the synthesis prompt, of which only the trimmed length is
\* read: a failed call or an empty reply, a detailed one, a padded moderate
\* one, one of no more than 50 characters
SynthesisReplies == {EmptyText, DetailedReply, ModerateReply, TerseReply}

\* how the owner directory can answer neo4j_service.get_user
UserLookups == {"found", "absent", "raises"}

\* a call made to a collaborator: get_user of the owner directory, the
\* content-check queries of the probe, the embedder, the vector search of
\* one index, the generation call for one index, the generation call of the
\* synthesis; with what the collaborator answered
Call(what, index, outcome) ==
    [call |-> what, index |-> index, outcome |-> outcome]

(***************************************************************************)
(* Neo4jGraphRAGService.query_user_data, step by step                      *)
(***************************************************************************)
SearchIdle ==
    /\ idx = <<>> /\ s_user = User /\ s_count = -1 /\ s_ok = TRUE
    /\ s_found = <<>> /\ s_ctx = <<>> /\ s_gen = Null /\ s_pc = "idle"

ScoreIdle ==
    /\ c_results = <<>> /\ c_avail = <<>> /\ c_impl = "custom"
    /\ c_conf = -1 /\ c_base = 0 /\ c_length = 0 /\ c_penalty = 0
    /\ c_retrieval = 0 /\ c_empty = <<>> /\ c_pc = "idle"

CompareIdle ==
    /\ h_pc = "idle" /\ h_task = <<>> /\ h_out = <<>> /\ h_response = Null

ChatIdle ==
    /\ ch_pc = "idle" /\ ch_message = Null /\ ch_context = Null
    /\ ch_prompt = Null /\ ch_response = Null /\ ch_memory = Null
    /\ ch_http = Null

DriverIdle ==
    /\ d_next = 0 /\ d_inflight = {} /\ d_done = {} /\ d_open = {}

Init ==
    /\ pc = "start"
    /\ llm \in BOOLEAN
    /\ store \in Stores
    /\ available = <<>>
    /\ probe_failed = {}
    /\ embedding = "unset"
    /\ embed_outcome = "unset"
    /\ pos = 0
    /\ all_results = <<>>
    /\ insights = <<>>
    /\ trace = <<>>
    /\ result = Null
    /\ SearchIdle
    /\ ScoreIdle
    /\ CompareIdle
    /\ ChatIdle
    /\ DriverIdle

\* _get_user_info without its handler: an exception of get_user leaves it
get_user_info_uncaught(lookup) ==
    IF lookup = "found" THEN "user_info"
    ELSE IF lookup = "absent" THEN "none" ELSE "raise"

\* _get_user_info: get_user answering nothing or raising both give None
get_user_info(lookup) == IF lookup = "found" THEN "user_info" ELSE "none"

GetUserInfo ==
    /\ pc = "start"
    /\ \E lookup \in UserLookups :
        /\ trace' = Append(trace, Call("get_user", Null, lookup))
        /\ IF get_user_info(lookup) = "raise"
           THEN \* the outer handler of query_user_data
                /\ result' = create_error_result("GraphRAG error")
                /\ pc' = "done"
           ELSE IF get_user_info(lookup) = "none"
           THEN /\ result' = create_error_result("User not found")
                /\ pc' = "done"
           ELSE /\ result' = result
                /\ pc' = "check_llm"
    /\ UNCHANGED <<llm, store, available, probe_failed, embedding,
                   embed_outcome, pos, all_results, insights>>
    /\ UNCHANGED <<searchVars, scoreVars, compareVars, chatVars, driverVars>>

\* if not self.llm: return await self._fallback_query(...)
CheckLlm ==
    /\ pc = "check_llm"
    /\ IF ~llm
       THEN /\ result' = fallback_query
            /\ pc' = "done"
       ELSE /\ result' = result
            /\ pc' = "probe"
    /\ UNCHANGED <<llm, store, available, probe_failed, embedding,
                   embed_outcome, pos, all_results, insights, trace>>
    /\ UNCHANGED <<searchVars, scoreVars, compareVars, chatVars, driverVars>>

\* available_indexes = await self._check_user_content_in_indexes(user_id);
\* an exception leaves through the outer handler of query_user_data
CheckUserContent ==
    /\ pc = "probe"
    /\ \E failing \in SUBSET Categories :
        /\ probe_failed' = failing
        /\ trace' = Append(trace, Call("probe", Null, failing))
        /\ IF failing # {}
           THEN /\ result' = create_error_result("GraphRAG error")
                /\ available' = available
                /\ pc' = "done"
           ELSE LET found == check_user_content_in_indexes(store, User, failing)
                IN  /\ available' = found
                    /\ IF found = <<>>
                       THEN result' = NoContentResult /\ pc' = "done"
                       ELSE result' = result /\ pc' = "embed"
    /\ UNCHANGED <<llm, store, embedding, embed_outcome, pos, all_results,
                   insights>>
    /\ UNCHANGED <<searchVars, scoreVars, compareVars, chatVars, driverVars>>

\* query_embedding = await embedding_service.generate_embedding(...); the
\* handler around it returns the error result if the call raises
EmbedQuery ==
    /\ pc = "embed"
    /\ \E outcome \in EmbedOutcomes :
        /\ embed_outcome' = outcome
        /\ trace' = IF EmbedderCalled(outcome)
                    THEN Append(trace, Call("embed", Null, outcome))
                    ELSE trace
        /\ IF generate_embedding(outcome) = "raise"
           THEN /\ result' = create_error_result("Embedding generation failed")
                /\ embedding' = embedding
                /\ pos' = pos
                /\ pc' = "done"
           ELSE /\ result' = result
                /\ embedding' = generate_embedding(outcome)
                /\ pos' = 1
                /\ pc' = "loop"
    /\ UNCHANGED <<llm, store, available, probe_failed, all_results, insights>>
    /\ UNCHANGED <<searchVars, scoreVars, compareVars, chatVars, driverVars>>

\* a loop that is left after its first turn
LoopLeftEarly(position, available_indexes) == position > 1

\* the for loop over available_indexes.keys() is exhausted
LoopExhausted(position, available_indexes) ==
    position > Len(available_indexes)

\* one turn of the loop over available_indexes.keys(): the vector search,
\* the response of the generation capability, the post-filter
QueryIndex ==
    /\ pc = "loop"
    /\ ~LoopExhausted(pos, available)
    /\ \E store_ok \in BOOLEAN, reply \in LlmReplies :
        LET index_name == available[pos].index
            relevant_content ==
                direct_vector_search(store[index_name], User, embedding,
                                     TopK, store_ok)
            generated == generate_response_from_content(relevant_content, reply)
            response_text == generated.text
        IN  /\ trace' = trace
                        \o <<Call("search", index_name, relevant_content)>>
                        \o (IF generated.called
                            THEN <<Call("generate", index_name, reply)>>
                            ELSE <<>>)
            /\ all_results' =
                IF /\ relevant_content # <<>>
                   /\ Truthy(response_text)
                   /\ ~is_empty_response(response_text)
                THEN Append(all_results,
                            ResultData(index_name, response_text, EmptyText,
                                       available[pos].count,
                                       Len(relevant_content)))
                ELSE all_results
    /\ pos' = pos + 1
    /\ UNCHANGED <<pc, llm, store, available, probe_failed, embedding,
                   embed_outcome, insights, result>>
    /\ UNCHANGED <<searchVars, scoreVars, compareVars, chatVars, driverVars>>

\* the result of the success path
SuccessResult(natural_response) ==
    GraphRAGResult("success", natural_response,
                   calculate_dynamic_confidence(all_results, available,
                                                "custom"),
                   MapSeq(all_results, LAMBDA res : res.source))

\* after the loop: the no-insight result, or _create_structured_response up
\* to its call of _synthesize_unified_response
CombineResults ==
    /\ pc = "loop"
    /\ LoopExhausted(pos, available)
    /\ IF all_results = <<>>
       THEN /\ result' = NoInsightResult(available)
            /\ insights' = insights
            /\ pc' = "done"
       ELSE /\ insights' = AllInsights(all_results)
            /\ IF AllInsights(all_results) = <<>>
               THEN /\ result' = SuccessResult(Message("no_insight", Null))
                    /\ pc' = "done"
               ELSE /\ result' = result
                    /\ pc' = "synthesize"
    /\ UNCHANGED <<llm, store, available, probe_failed, embedding,
                   embed_outcome, pos, all_results, trace>>
    /\ UNCHANGED <<searchVars, scoreVars, compareVars, chatVars, driverVars>>

\* _synthesize_unified_response and the return of query_user_data
Synthesize ==
    /\ pc = "synthesize"
    /\ \E reply \in SynthesisReplies :
        /\ trace' = Append(trace, Call("synthesize", Null, reply))
        /\ result' = SuccessResult(synthesize_unified_response(insights, reply))
    /\ pc' = "done"
    /\ UNCHANGED <<llm, store, available, probe_failed, embedding,
                   embed_outcome, pos, all_results, insights>>
    /\ UNCHANGED <<searchVars, scoreVars, compareVars, chatVars, driverVars>>

Next ==
    \/ GetUserInfo
    \/ CheckLlm
    \/ CheckUserContent
    \/ EmbedQuery
    \/ QueryIndex
    \/ CombineResults
    \/ Synthesize

Spec == Init /\ [][Next]_vars

\* query_user_data is one coroutine the caller awaits: every await in it is
\* of a call that returns or raises, so a step that can be taken is taken
\* the executions followed to their end start from a store with at most
\* this many populated node types
MaxPopulatedFair == 2

InitFair ==
    /\ Init
    /\ Cardinality({c \in Categories : store[c] # <<>>}) <= MaxPopulatedFair

SpecFair == InitFair /\ [][Next]_vars /\ WF_vars(Next)

(***************************************************************************)
(* The probe and the vector search on one index, for every small index     *)
(***************************************************************************)
\* the nodes an index is built from: of the owner with a meaningful and
\* with a short content; of the owner without an embedding; of another
\* owner.  A node that has an embedding has the content it was computed
\* from.
NodeKinds ==
    {Node(User, LongContent, TRUE), Node(User, ShortContent, TRUE),
     Node(User, LongContent, FALSE), Node(Other, LongContent, TRUE)}

\* an index holds at most this many nodes
MaxNodes == 6

QueryIdle ==
    /\ pc = "idle" /\ llm = TRUE /\ store = [c \in Categories |-> <<>>]
    /\ available = <<>> /\ probe_failed = {} /\ embedding = "unset"
    /\ embed_outcome = "unset" /\ pos = 0 /\ all_results = <<>>
    /\ insights = <<>> /\ trace = <<>> /\ result = Null

InitSearch ==
    /\ QueryIdle
    /\ ScoreIdle
    /\ CompareIdle
    /\ ChatIdle
    /\ DriverIdle
    /\ idx = <<>>
    /\ s_user = User
    /\ s_count = -1
    /\ s_ok = TRUE
    /\ s_found = <<>>
    /\ s_ctx = <<>>
    /\ s_gen = Null
    /\ s_pc = "build"

\* a node is stored; it ranks behind the nodes stored before it
StoreNode ==
    /\ s_pc = "build"
    /\ Len(idx) < MaxNodes
    /\ \E node \in NodeKinds : idx' = Append(idx, node)
    /\ UNCHANGED <<s_user, s_count, s_ok, s_found, s_ctx, s_gen, s_pc>>
    /\ UNCHANGED <<queryVars, scoreVars, compareVars, chatVars, driverVars>>

\* the content-check query of one index, for one owner
ProbeIndex ==
    /\ s_pc = "build"
    /\ \E user_id \in Owners :
        /\ s_user' = user_id
        /\ s_count' = ContentCount(idx, user_id)
    /\ s_pc' = "probed"
    /\ UNCHANGED <<idx, s_ok, s_found, s_ctx, s_gen>>
    /\ UNCHANGED <<queryVars, scoreVars, compareVars, chatVars, driverVars>>

\* the replies to the prompt of one category: a failed call or an empty
\* reply, and a padded answer
GroundedReplies == {EmptyText, ModerateReply}

\* _direct_vector_search on the same index for the same owner, then
\* _generate_response_from_content on what it found, with the grounding
\* context it builds
SearchIndex ==
    /\ s_pc = "probed"
    /\ \E store_ok \in BOOLEAN :
        /\ s_ok' = store_ok
        /\ s_found' = direct_vector_search(idx, s_user, "vector", TopK,
                                           store_ok)
        /\ s_ctx' = ContextItems(direct_vector_search(idx, s_user, "vector",
                                                      TopK, store_ok))
        /\ \E reply \in GroundedReplies :
            s_gen' = generate_response_from_content(
                         direct_vector_search(idx, s_user, "vector", TopK,
                                              store_ok), reply)
    /\ s_pc' = "searched"
    /\ UNCHANGED <<idx, s_user, s_count>>
    /\ UNCHANGED <<queryVars, scoreVars, compareVars, chatVars, driverVars>>

NextSearch ==
    \/ StoreNode
    \/ ProbeIndex
    \/ SearchIndex

SpecSearch == InitSearch /\ [][NextSearch]_vars

(***************************************************************************)
(* The scorer and the post-filter, for every small list of results         *)
(***************************************************************************)
\* the texts of the results scored
LongReply == Text(200, 0, {}, {}, TRUE)
NoTherapyDataReply == Text(60, 0, {"no therapy data"}, {}, TRUE)
ScoredTexts ==
    <<DetailedReply, LongReply, Strip(ModerateReply),
      Strip(NoInformationReply), NoDataReply, NoTherapyDataReply>>

\* the numbers of retrieved items of the results scored
RetrievedCounts == <<0, 1, 3>>

\* the kinds of results scored: a text and a number of retrieved items
NumKinds == Len(ScoredTexts) * Len(RetrievedCounts)
KindText(k) == ScoredTexts[((k - 1) \div Len(RetrievedCounts)) + 1]
KindRetrieved(k) == RetrievedCounts[((k - 1) % Len(RetrievedCounts)) + 1]

\* at most this many results are scored
MaxResults == 4

\* the available_indexes scored: None or the empty dict, or the first m
\* indexes with the same count each
AvailableMaps ==
    {<<>>} \cup
    {[i \in 1..m |-> Entry(therapy_indexes[i], count)] :
        m \in 1..Len(therapy_indexes), count \in {1, 5}}

InitScore ==
    /\ QueryIdle
    /\ SearchIdle
    /\ CompareIdle
    /\ ChatIdle
    /\ DriverIdle
    /\ c_results = <<>>
    /\ c_avail \in AvailableMaps
    /\ c_impl \in {"custom", "official"}
    /\ c_conf = -1
    /\ c_base = 0
    /\ c_length = 0
    /\ c_penalty = 0
    /\ c_retrieval = 0
    /\ c_empty = <<>>
    /\ c_pc = "collect"

\* one more result; the scorer reads sums and any() over the list, so the
\* results are listed in the order of their kinds.  Its text is the
\* 'response' of a custom result and the 'answer' of an official one.
AddResult ==
    /\ c_pc = "collect"
    /\ Len(c_results) < MaxResults
    /\ \E k \in 1..NumKinds :
        /\ IF c_results = <<>> THEN TRUE
           ELSE c_results[Len(c_results)].kind <= k
        /\ c_results' =
            Append(c_results,
                   [kind |-> k] @@
                   ResultData(therapy_indexes[Len(c_results) + 1],
                              IF c_impl = "custom" THEN KindText(k)
                                                   ELSE EmptyText,
                              IF c_impl = "custom" THEN EmptyText
                                                   ELSE KindText(k),
                              1, KindRetrieved(k)))
    /\ UNCHANGED <<c_avail, c_impl, c_conf, c_base, c_length, c_penalty,
                   c_retrieval, c_empty, c_pc>>
    /\ UNCHANGED <<queryVars, searchVars, compareVars, chatVars, driverVars>>

\* calculate_dynamic_confidence on the list, and _is_empty_response on the
\* text of each result
Score ==
    /\ c_pc = "collect"
    /\ c_conf' = calculate_dynamic_confidence(c_results, c_avail, c_impl)
    /\ c_base' = IF c_results = <<>> THEN 0
                 ELSE BaseConfidence(c_results, c_avail, c_impl)
    /\ c_length' = IF c_results = <<>> THEN 0
                   ELSE LengthBonus(c_results, c_impl)
    /\ c_retrieval' = IF c_results = <<>> THEN 0
                      ELSE RetrievalBonus(c_results, c_avail, c_impl)
    /\ c_penalty' = IF c_results = <<>> THEN 0
                    ELSE GenericPenalty(c_results, c_impl)
    /\ c_empty' = [i \in DOMAIN c_results |->
                      is_empty_response(ScoredText(c_results[i], c_impl))]
    /\ c_pc' = "scored"
    /\ UNCHANGED <<c_results, c_avail, c_impl>>
    /\ UNCHANGED <<queryVars, searchVars, compareVars, chatVars, driverVars>>

NextScore ==
    \/ AddResult
    \/ Score

SpecScore == InitScore /\ [][NextScore]_vars

(***************************************************************************)
(* official_graphrag.py: OfficialGraphRAGService.query_user_data as a      *)
(* function of the outcomes of its sub-steps                               *)
(***************************************************************************)
OfficialGraphRAGResult(kind, natural_response, confidence, data_sources, retrieval_method) ==
    [kind |-> kind, natural_response |-> natural_response,
     confidence |-> confidence, data_sources |-> data_sources,
     retrieval_method |-> retrieval_method]

official_create_error_result(error_message) ==
    OfficialGraphRAGResult("error", Message("error", error_message), 0,
                           <<"error">>, "error")

official_create_fallback_result ==
    OfficialGraphRAGResult("fallback", Message("official_unavailable", Null),
                           10, <<"fallback_unavailable">>,
                           "fallback_unavailable")

official_create_no_data_result ==
    OfficialGraphRAGResult("no_content", Message("no_user_data", Null), 0,
                           <<"no_user_data">>, "no_user_data")

official_create_no_retrievers_result ==
    OfficialGraphRAGResult("no_retrievers", Message("retriever_error", Null),
                           0, <<"retriever_error">>, "retriever_error")

\* the result of query_user_data when no index gave an answer
official_no_results_result ==
    OfficialGraphRAGResult("no_insight", Message("no_results", Null), 10,
                           <<"No Results Found">>,
                           "official_dynamic_multi_index_graphrag")

\* _check_user_data_in_indexes: each content-check query has its own
\* handler, so an index whose query raises is skipped
official_check_user_data_in_indexes(st, user_id, failing) ==
    LET HasData(index) == /\ index \notin failing
                          /\ ContentCount(st[index], user_id) > 0
    IN  SelectSeq(therapy_indexes, HasData)

\* _synthesize_unified_response of the official service
official_synthesize_unified_response(results, reply) ==
    LET Answer(res) == res.answer
    IN  IF Len(results) = 1
        THEN [form |-> "verbatim", text |-> results[1].answer]
        ELSE IF Truthy(reply) /\ TextLen(Strip(reply)) > MinSynthesisLen
        THEN [form |-> "synthesized", text |-> Strip(reply)]
        ELSE [form |-> "combined", parts |-> MapSeq(results, Answer)]

\* query_user_data of the official service: lookup is how get_user ended,
\* unbuilt holds the indexes whose retriever could not be created, answers
\* gives for each index the answer of its GraphRAG search (the empty
\* text when the search raised or answered nothing)
official_query_user_data(lookup, is_available, indexes_with_data, unbuilt, answers, reply) ==
    LET Built(index) == index \notin unbuilt
        graphrag_instances == SelectSeq(indexes_with_data, Built)
        Answered(index) == Truthy(answers[index])
        AsResult(index) == ResultData(index, EmptyText, answers[index], 0, 0)
        results == MapSeq(SelectSeq(graphrag_instances, Answered), AsResult)
        Friendly(res) == res.source
    IN  IF get_user_info(lookup) = "none"
        THEN official_create_error_result("User not found")
        ELSE IF ~is_available THEN official_create_fallback_result
        ELSE IF indexes_with_data = <<>> THEN official_create_no_data_result
        ELSE IF graphrag_instances = <<>>
        THEN official_create_no_retrievers_result
        ELSE IF results = <<>> THEN official_no_results_result
        ELSE OfficialGraphRAGResult(
                 "success",
                 official_synthesize_unified_response(results, reply),
                 calculate_dynamic_confidence(results, <<>>, "official"),
                 MapSeq(results, Friendly),
                 "official_dynamic_multi_index_graphrag")

(***************************************************************************)
(* routers/users.py: compare_graphrag_implementations                      *)
(***************************************************************************)
Pipelines == {"custom", "official"}

\* an exception gather collected in place of a result
Raised(text) == [raised |-> text]
IsException(out) == "raised" \in DOMAIN out
Exceptions == {Raised("TimeoutError"), Raised("ServiceUnavailable")}

\* what the custom pipeline can hand to gather
CustomOutcomes ==
    {create_error_result("User not found"),
     create_error_result("GraphRAG error"),
     fallback_query,
     NoContentResult,
     NoInsightResult(<<Entry(therapy_indexes[1], 1)>>),
     GraphRAGResult("success",
                    synthesize_unified_response(
                        <<ResultData(therapy_indexes[1], DetailedReply,
                                     EmptyText, 1, 1)>>, DetailedReply),
                    95, <<index_name_to_friendly(therapy_indexes[1])>>)}
    \cup Exceptions

\* what the official pipeline can hand to gather
OfficialOutcomes ==
    {official_query_user_data(lookup, is_available, indexes_with_data,
                              unbuilt, [c \in Categories |-> answer],
                              DetailedReply) :
        lookup \in UserLookups, is_available \in BOOLEAN,
        indexes_with_data \in {<<>>, Take(therapy_indexes, 2)},
        unbuilt \in {{}, Categories},
        answer \in {EmptyText, DetailedReply, TerseReply}}
    \cup Exceptions

PipelineOutcomes(p) == IF p = "custom" THEN CustomOutcomes ELSE OfficialOutcomes

\* a gather that returns as soon as one of its tasks has finished
gather_returns_first(task) == \E p \in Pipelines : task[p] = "finished"

\* asyncio.gather(custom_task, official_task, return_exceptions=True)
\* returns when both tasks have finished
gather_returns(task) == \A p \in Pipelines : task[p] = "finished"

GraphRAGComparisonResult(implementation, response, confidence, data_sources, indexes_used, retrieval_method, error) ==
    [implementation |-> implementation, response |-> response,
     confidence |-> confidence, data_sources |-> data_sources,
     indexes_used |-> indexes_used, retrieval_method |-> retrieval_method,
     error |-> error]

\* the side of the response built for one pipeline
comparison_result(p, task, out) ==
    LET implementation == IF p = "custom" THEN "Custom (Multi-Index)"
                          ELSE "Official Neo4j GraphRAG"
    IN  IF task # "finished"
        THEN \* gather returned without this task's result
             GraphRAGComparisonResult(implementation, Null, 0, <<>>, <<>>,
                                      Null, "pending")
        ELSE IF IsException(out)
        THEN GraphRAGComparisonResult(
                 implementation, <<"Error: ", out.raised>>, 0, <<>>, <<>>,
                 IF p = "custom" THEN "direct_vector_search"
                 ELSE "official_multi_index_retrieval",
                 out.raised)
        ELSE GraphRAGComparisonResult(
                 implementation, out.natural_response, out.confidence,
                 out.data_sources, out.data_sources,
                 IF p = "custom" THEN "direct_vector_search"
                 ELSE out.retrieval_method,
                 Null)

InitCompare ==
    /\ QueryIdle
    /\ SearchIdle
    /\ ScoreIdle
    /\ ChatIdle
    /\ DriverIdle
    /\ h_pc = "start"
    /\ h_task = [p \in Pipelines |-> "created"]
    /\ h_out = [p \in Pipelines |-> Null]
    /\ h_response = Null

\* both coroutines are handed to asyncio.gather, which schedules them
GatherPipelines ==
    /\ h_pc = "start"
    /\ h_task' = [p \in Pipelines |-> "running"]
    /\ h_pc' = "gather"
    /\ UNCHANGED <<h_out, h_response>>
    /\ UNCHANGED <<queryVars, searchVars, scoreVars, chatVars, driverVars>>

\* one pipeline returns its result or raises
PipelineEnds ==
    /\ h_pc = "gather"
    /\ \E p \in Pipelines :
        /\ h_task[p] = "running"
        /\ \E out \in PipelineOutcomes(p) :
            /\ h_out' = [h_out EXCEPT ![p] = out]
            /\ h_task' = [h_task EXCEPT ![p] = "finished"]
    /\ UNCHANGED <<h_pc, h_response>>
    /\ UNCHANGED <<queryVars, searchVars, scoreVars, chatVars, driverVars>>

\* gather has returned: the response is built from what it collected
AssembleComparison ==
    /\ h_pc = "gather"
    /\ gather_returns(h_task)
    /\ h_response' =
        [custom_result |->
            comparison_result("custom", h_task["custom"], h_out["custom"]),
         official_result |->
            comparison_result("official", h_task["official"],
                              h_out["official"])]
    /\ h_pc' = "done"
    /\ UNCHANGED <<h_task, h_out>>
    /\ UNCHANGED <<queryVars, searchVars, scoreVars, chatVars, driverVars>>

NextCompare ==
    \/ GatherPipelines
    \/ PipelineEnds
    \/ AssembleComparison

SpecCompare == InitCompare /\ [][NextCompare]_vars

(***************************************************************************)
(* routers/chat.py, services/router.py, personas/sage/handler.py,          *)
(* services/anthropic_service.py: POST /chat/                              *)
(***************************************************************************)
\* a fixed sentence of the program, named by its opening words
Sentence(opening, length) == Text(length, 0, {opening}, {}, TRUE)

\* request.message: ChatRequest requires min_length=1
Messages ==
    {Text(30, 0, {"overwhelmed"}, {}, TRUE),
     Text(12, 0, {"sad"}, {}, FALSE),
     Text(5, 0, {}, {}, FALSE),
     Text(0, 1, {}, {}, FALSE)}

\* the word lists of _generate_fallback_response, in the order tested
fallback_patterns ==
    <<[words |-> {"overwhelmed", "stressed", "anxious"},
       reply |-> Sentence("that sounds like a lot to carry", 113)],
      [words |-> {"sad", "sadness", "grief", "loss"},
       reply |-> Sentence("i can feel the weight of that sadness", 108)],
      [words |-> {"stuck", "trapped", "can't move"},
       reply |-> Sentence("being stuck can feel so heavy", 172)],
      [words |-> {"angry", "frustrated", "mad"},
       reply |-> Sentence("that anger has something to say", 127)]>>

\* AnthropicService._generate_fallback_response
generate_fallback_response(user_message) ==
    LET Matches(p) == \E w \in p.words : Contains(Lower(user_message), w)
        matching == SelectSeq(fallback_patterns, Matches)
    IN  IF matching # <<>>
        THEN matching[1].reply
        ELSE \* the general reply quotes the message
             Text(129 + TextLen(user_message), 0, {"i hear you saying"}, {},
                  TRUE)

\* directive_patterns of _ensure_sage_tone, with the change of length each
\* replacement makes
directive_patterns ==
    <<[directive |-> "you should", gentle |-> "you might find", grows |-> 4],
      [directive |-> "you need to", gentle |-> "you could explore",
       grows |-> 6],
      [directive |-> "you must", gentle |-> "you might consider",
       grows |-> 10],
      [directive |-> "i recommend", gentle |-> "i wonder if", grows |-> 0],
      [directive |-> "try this", gentle |-> "what if you", grows |-> 3],
      [directive |-> "here's what you should do",
       gentle |-> "what feels right for you", grows |-> -1]>>

\* AnthropicService._ensure_sage_tone: str.replace changes only the phrase
\* written as the pattern writes it, with its capital
RECURSIVE ensure_sage_tone_from(_, _)
ensure_sage_tone_from(response, k) ==
    IF k > Len(directive_patterns)
    THEN response
    ELSE LET p == directive_patterns[k]
         IN  ensure_sage_tone_from(
                 IF p.directive \in response.uc
                 THEN [response EXCEPT
                          !.uc = (@ \ {p.directive}) \cup {p.gentle},
                          !.core = @ + p.grows]
                 ELSE response,
                 k + 1)

ensure_sage_tone(response) == ensure_sage_tone_from(response, 1)

\* how client.messages.create can end: no client, an exception, or a
\* completion with its text
Completions ==
    {Text(200, 0, {}, {}, TRUE),
     Text(80, 1, {}, {"you should"}, TRUE),
     Text(40, 0, {"you must"}, {}, FALSE),
     Text(0, 2, {}, {}, FALSE),
     EmptyText}

GenerationOutcomes ==
    {[how |-> "no_client"], [how |-> "raises"]}
    \cup {[how |-> "completion", text |-> t] : t \in Completions}

\* AnthropicService.generate_sage_response for a chat message
generate_sage_response(outcome, user_message) ==
    IF outcome.how = "no_client"
    THEN generate_fallback_response(user_message)
    ELSE IF outcome.how = "raises"
    THEN generate_fallback_response(user_message)
    ELSE ensure_sage_tone(Strip(outcome.text))

\* the reply of the handler's exception handler
handler_fallback == Sentence("i'm here with you. sometimes words", 78)

\* PersonaRouter._generate_fallback_response
router_fallback == Sentence("i'm here with you, though", 120)

\* the reply of the endpoint's exception handler
chat_fallback == Sentence("i'm here with you. something went wrong", 70)

\* PersonaRouter.route_message around the handler's return
route_message(handler_result) ==
    IF IsException(handler_result) THEN router_fallback ELSE handler_result

\* chat_with_persona around route_message's return
chat_with_persona(routed) ==
    [status |-> 200,
     persona_response |-> IF IsException(routed) THEN chat_fallback
                          ELSE routed]

InitChat ==
    /\ QueryIdle
    /\ SearchIdle
    /\ ScoreIdle
    /\ CompareIdle
    /\ DriverIdle
    /\ ch_pc = "received"
    /\ ch_message \in Messages
    /\ ch_context = Null
    /\ ch_prompt = Null
    /\ ch_response = Null
    /\ ch_memory = Null
    /\ ch_http = Null

\* get_user_context: a failed memory read gives the fallback context
GetUserContext ==
    /\ ch_pc = "received"
    /\ \E read \in {"ok", "raises"} :
        ch_context' = IF read = "ok" THEN "memory" ELSE "fallback"
    /\ ch_pc' = "context"
    /\ UNCHANGED <<ch_message, ch_prompt, ch_response, ch_memory, ch_http>>
    /\ UNCHANGED <<queryVars, searchVars, scoreVars, compareVars, driverVars>>

\* prompt_template.render; when it raises, the handler's exception handler
\* returns its fixed reply
RenderPrompt ==
    /\ ch_pc = "context"
    /\ \E render \in {"ok", "raises"} :
        IF render = "ok"
        THEN /\ ch_prompt' = "rendered"
             /\ ch_pc' = "prompt"
             /\ UNCHANGED ch_response
        ELSE /\ ch_prompt' = "failed"
             /\ ch_response' = handler_fallback
             /\ ch_pc' = "returned"
    /\ UNCHANGED <<ch_message, ch_context, ch_memory, ch_http>>
    /\ UNCHANGED <<queryVars, searchVars, scoreVars, compareVars, driverVars>>

\* anthropic_service.generate_sage_response
GenerateSageResponse ==
    /\ ch_pc = "prompt"
    /\ \E outcome \in GenerationOutcomes :
        ch_response' = generate_sage_response(outcome, ch_message)
    /\ ch_pc' = "generated"
    /\ UNCHANGED <<ch_message, ch_context, ch_prompt, ch_memory, ch_http>>
    /\ UNCHANGED <<queryVars, searchVars, scoreVars, compareVars, driverVars>>

\* _process_intelligent_memory inside its own try/except, or skipped when
\* intelligent memory is disabled; the response is returned either way
ProcessIntelligentMemory ==
    /\ ch_pc = "generated"
    /\ ch_memory' \in {"processed", "failed", "disabled"}
    /\ ch_pc' = "returned"
    /\ UNCHANGED <<ch_message, ch_context, ch_prompt, ch_response, ch_http>>
    /\ UNCHANGED <<queryVars, searchVars, scoreVars, compareVars, driverVars>>

\* route_message returns the handler's reply and the endpoint wraps it
ChatResponds ==
    /\ ch_pc = "returned"
    /\ ch_http' = chat_with_persona(route_message(ch_response))
    /\ ch_pc' = "responded"
    /\ UNCHANGED <<ch_message, ch_context, ch_prompt, ch_response, ch_memory>>
    /\ UNCHANGED <<queryVars, searchVars, scoreVars, compareVars, driverVars>>

NextChat ==
    \/ GetUserContext
    \/ RenderPrompt
    \/ GenerateSageResponse
    \/ ProcessIntelligentMemory
    \/ ChatResponds

SpecChat == InitChat /\ [][NextChat]_vars

(***************************************************************************)
(* routers/users.py: the services built per request and their drivers      *)
(***************************************************************************)
\* the requests followed
MaxRequests == 3

\* the services the dependencies of an endpoint construct
ServicesOf(endpoint) ==
    IF endpoint = "query" THEN {"custom"} ELSE {"custom", "official"}

\* a driver a service constructor opened, with the request it was built for
Driver(request, service) == [request |-> request, service |-> service]

InitDrivers ==
    /\ QueryIdle
    /\ SearchIdle
    /\ ScoreIdle
    /\ CompareIdle
    /\ ChatIdle
    /\ d_next = 0
    /\ d_inflight = {}
    /\ d_done = {}
    /\ d_open = {}

\* a query or compare request arrives: get_graphrag_service and, for the
\* comparison, get_official_graphrag_service construct a service, whose
\* constructor opens a synchronous driver unless GraphDatabase.driver raises
ReceiveRequest ==
    /\ d_next < MaxRequests
    /\ \E endpoint \in {"query", "compare"} :
        \E opened \in SUBSET ServicesOf(endpoint) :
            d_open' = d_open \cup {Driver(d_next + 1, s) : s \in opened}
    /\ d_inflight' = d_inflight \cup {d_next + 1}
    /\ d_next' = d_next + 1
    /\ UNCHANGED d_done
    /\ UNCHANGED <<queryVars, searchVars, scoreVars, compareVars, chatVars>>

\* the endpoint returns its response or raises HTTPException; neither path
\* calls close() on a service
CompleteRequest ==
    /\ \E request \in d_inflight :
        /\ d_inflight' = d_inflight \ {request}
        /\ d_done' = d_done \cup {request}
    /\ UNCHANGED <<d_next, d_open>>
    /\ UNCHANGED <<queryVars, searchVars, scoreVars, compareVars, chatVars>>

\* after the request the service is referenced by nothing; whether and when
\* the runtime finalizes it, and with it the driver, is not the program's
\* doing
DriverFinalized ==
    /\ \E driver \in d_open :
        /\ driver.request \in d_done
        /\ d_open' = d_open \ {driver}
    /\ UNCHANGED <<d_next, d_inflight, d_done>>
    /\ UNCHANGED <<queryVars, searchVars, scoreVars, compareVars, chatVars>>

NextDrivers ==
    \/ ReceiveRequest
    \/ CompleteRequest
    \/ DriverFinalized

\* the server takes every request it is sent and every handler returns
SpecDrivers ==
    /\ InitDrivers
    /\ [][NextDrivers]_vars
    /\ WF_vars(ReceiveRequest)
    /\ WF_vars(CompleteRequest)

(***************************************************************************)
(* Properties                                                              *)
(***************************************************************************)
\* the positions of the calls of one kind in the trace
Calls(what) == {i \in DOMAIN trace : trace[i].call = what}
Made(what) == Calls(what) # {}

\* the probe was called and returned its dict
ProbeReturned == Made("probe") /\ probe_failed = {}

\* C1: whenever the probe returns an empty map for a resolved owner, the
\* query has returned with confidence exactly 0.95 and neither the embedder
\* nor the generation capability was called in that execution.
C1_NoDataShortCircuit ==
    (ProbeReturned /\ available = <<>>) =>
        /\ pc = "done"
        /\ result.confidence = 95
        /\ ~Made("embed")
        /\ ~Made("generate")
        /\ ~Made("synthesize")

C1_Witness ==
    /\ pc = "done"
    /\ ProbeReturned
    /\ available = <<>>
    /\ trace[1].outcome = "found"
    /\ result.kind = "no_content"

\* the embedding step of the query failed
EmbeddingFailed == embed_outcome \in {"not_initialized", "call_error"}

\* C2: whenever the embedding step fails, no category vector search is
\* attempted and the query returns the confidence-0.0 error result.
C2_EmbeddingFailureFatal ==
    EmbeddingFailed =>
        /\ ~Made("search")
        /\ pc = "done" => (result.kind = "error" /\ result.confidence = 0)

\* the owner has content in 3 of the 5 categories and each of the three
\* generation calls answered with the phrase "no relevant information"
ScenarioC ==
    /\ pc = "done"
    /\ Len(available) = 3
    /\ Cardinality(Calls("generate")) = 3
    /\ \A i \in Calls("generate") :
        Contains(Lower(trace[i].outcome), "no relevant information")

\* C3: in scenario C every category answer is discarded by the post-filter
\* and the query returns confidence exactly 0.25 with the 'content exists
\* but no insight' message.
C3_ScenarioC ==
    ScenarioC =>
        /\ all_results = <<>>
        /\ result.confidence = 25
        /\ result.natural_response = Message("no_insight", Null)

\* C4: in an unchanged store that answers, if the probe counts n > 0 nodes
\* of an owner in a category, the vector search of that category for that
\* owner returns at least one item.
C4_ProbeMonotonicity ==
    (s_pc = "searched" /\ s_ok /\ s_count > 0) => Len(s_found) >= 1

\* C5: the items a vector search scoped to an owner returns are all items of
\* that owner.
C5_OwnerScoping ==
    s_pc = "searched" =>
        \A i \in DOMAIN s_found : s_found[i].user_id = s_user

\* a search that returned items although a node of another owner ranks
\* among the top_k nearest
C5_Witness ==
    /\ s_pc = "searched"
    /\ s_found # <<>>
    /\ \E i \in 1..Min2(TopK, Len(idx)) :
        idx[i].user_id # s_user /\ idx[i].has_embedding

\* owner resolution answered nothing or raised
OwnerNotResolved ==
    /\ trace # <<>>
    /\ trace[1].call = "get_user"
    /\ trace[1].outcome \in {"absent", "raises"}

\* C6: when owner resolution returns nothing or raises, the query returns
\* the confidence-0.0 'User not found' result and no probe, embedding,
\* search or generation call is made in that execution.
C6_OwnerNotFound ==
    OwnerNotResolved =>
        /\ pc = "done"
        /\ result = create_error_result("User not found")
        /\ Len(trace) = 1

C6_Witness ==
    /\ OwnerNotResolved
    /\ trace[1].outcome = "raises"
    /\ pc = "done"
    /\ result.confidence = 0

\* an answer returned unchanged
Verbatim(text) == [form |-> "verbatim", text |-> text]

\* C7: when exactly one category result reaches synthesis, the unified
\* answer is that result's answer text unchanged and no generation call is
\* made for synthesis.
C7_SingleResultPassthrough ==
    (/\ pc = "done"
     /\ result.kind = "success"
     /\ Len(all_results) = 1
     /\ Len(insights) = 1) =>
        /\ result.natural_response = Verbatim(all_results[1].response)
        /\ ~Made("synthesize")

\* C8: if the content-check query fails for some categories while the
\* others succeed, the probe result holds exactly the other categories with
\* count > 0.
C8_ProbeFailureIsolation ==
    (Made("probe") /\ probe_failed # {} /\ probe_failed # Categories) =>
        LET Succeeded(e) == e.index \notin probe_failed
        IN  available = SelectSeq(ContentInIndexes(store, User), Succeeded)

\* C9: the scorer subtracts 0.15 exactly when the post-filter classifies
\* one of the scored texts as empty.
C9_SamePhraseList ==
    (c_pc = "scored" /\ c_results # <<>>) =>
        ((c_penalty = -15) <=> (\E i \in DOMAIN c_empty : c_empty[i]))

\* C10: the scorer returns a value between 0.1 and 0.95, and exactly 0.1 for
\* an empty list of results.
C10_ConfidenceBounds ==
    c_pc = "scored" =>
        /\ 10 <= c_conf
        /\ c_conf <= 95
        /\ c_results = <<>> => c_conf = 10

\* a scored list whose base and bonuses add up to more than 0.95
C10_Witness ==
    /\ c_pc = "scored"
    /\ c_results # <<>>
    /\ BaseConfidence(c_results, c_avail, c_impl)
       + LengthBonus(c_results, c_impl)
       + c_penalty
       + RetrievalBonus(c_results, c_avail, c_impl) > 95
    /\ c_conf = 95

\* the scorer ran on a list that is not empty
Scored == c_pc = "scored" /\ c_results # <<>>

\* coverage mode: the custom implementation with a non-empty availability map
CoverageMode == c_impl = "custom" /\ c_avail # <<>>

TotalLength ==
    SumSeq([i \in DOMAIN c_results |->
               TextLen(ScoredText(c_results[i], c_impl))])

\* C12: with L the average answer length over the results, the scorer adds
\* 0.10 when L > 300, adds 0.05 when 150 < L <= 300, subtracts 0.10 when
\* L < 50, and adds nothing when 50 <= L <= 150.
C12_LengthAdjustment ==
    Scored =>
        LET n == Len(c_results)
            T == TotalLength
        IN  /\ (T > 300 * n) => c_length = 10
            /\ (T > 150 * n /\ T <= 300 * n) => c_length = 5
            /\ (T < 50 * n) => c_length = -10
            /\ (T >= 50 * n /\ T <= 150 * n) => c_length = 0

\* results whose average length is exactly 300 get the smaller bonus
C12_Witness ==
    /\ Scored
    /\ Len(c_results) >= 2
    /\ TotalLength = 300 * Len(c_results)
    /\ c_length = 5

\* the sum of the retrieved-item counts of the results scored
TotalRetrieved ==
    SumSeq([i \in DOMAIN c_results |-> c_results[i].retrieved_items])

\* the sum of the stored-item counts of the available categories
TotalStored == SumSeq([i \in DOMAIN c_avail |-> c_avail[i].count])

\* C13: in coverage mode, with A the average retrieved-item count per
\* result and T the sum of the stored-item counts of the available
\* categories, the scorer adds 0.10 if A >= 3, 0.05 if 2 <= A < 3, nothing
\* if 1 <= A < 2, subtracts 0.10 if A < 1, and further adds 0.05 if
\* T >= 10, subtracts 0.05 if T < 3; in absolute-count mode it applies
\* none of these.
C13_RetrievalDensity ==
    Scored =>
        LET n == Len(c_results)
            R == TotalRetrieved
            T == TotalStored
            density == IF R >= 3 * n THEN 10
                       ELSE IF R >= 2 * n THEN 5
                       ELSE IF R >= n THEN 0
                       ELSE -10
            volume == IF T >= 10 THEN 5 ELSE IF T < 3 THEN -5 ELSE 0
        IN  IF CoverageMode
            THEN c_retrieval = density + volume
            ELSE c_retrieval = 0

\* the official implementation scored with an availability map that would
\* earn both bonuses in coverage mode
C13_Witness ==
    /\ Scored
    /\ c_impl = "official"
    /\ TotalStored >= 10
    /\ TotalRetrieved >= 3 * Len(c_results)
    /\ c_retrieval = 0

\* the owner's only populated category holds 5 items, the query embedded,
\* and that category gave a 400-character answer that passed the post-filter
ScenarioB ==
    /\ pc = "done"
    /\ Len(available) = 1
    /\ available[1].count = 5
    /\ embed_outcome = "ok"
    /\ Len(all_results) = 1
    /\ TextLen(all_results[1].response) = 400

\* C14: in scenario B the query returns confidence exactly 0.95.
C14_ScenarioB == ScenarioB => result.confidence = 95

\* the probe found content, the embedding succeeded and the loop over the
\* available categories ended with no surviving category result
LoopEndedEmpty ==
    /\ ProbeReturned
    /\ available # <<>>
    /\ embed_outcome = "ok"
    /\ pos > Len(available)
    /\ all_results = <<>>

\* C15: when the probe found a populated category, the embedding succeeded
\* and the loop ends with zero surviving category results, the query
\* returns confidence exactly 0.25 with the 'found content but no insight'
\* message and makes no synthesis generation call.
C15_NoInsight ==
    LoopEndedEmpty =>
        /\ pc \in {"loop", "done"}
        /\ ~Made("synthesize")
        /\ pc = "done" =>
            /\ result.confidence = 25
            /\ result.natural_response = Message("no_insight", Null)

\* the query returned after a search that failed or found nothing, a
\* generation call that failed, and an answer the post-filter discarded
C15_Witness ==
    /\ LoopEndedEmpty
    /\ pc = "done"
    /\ \E i \in Calls("search") : trace[i].outcome = <<>>
    /\ \E i \in Calls("generate") : trace[i].outcome = EmptyText
    /\ \E i \in Calls("generate") :
        Truthy(trace[i].outcome) /\ is_empty_response(trace[i].outcome)

\* the generation call at position i of the trace gave an answer that the
\* loop keeps: not empty once trimmed, and not empty for the post-filter
Survived(i) ==
    LET response_text == Strip(trace[i].outcome)
    IN  Truthy(response_text) /\ ~is_empty_response(response_text)

\* the categories whose answer survived, read off the trace
SurvivingCategories ==
    {trace[i].index : i \in {j \in Calls("generate") : Survived(j)}}

\* the per-category loop has begun
LoopBegun == pc \in {"loop", "synthesize"} \/ (pc = "done" /\ pos >= 1)

\* the query is past the per-category loop
LoopLeft == pc = "synthesize" \/ (pc = "done" /\ pos >= 1)

SynthesisCallFailed ==
    \E j \in Calls("synthesize") :
        \/ ~Truthy(trace[j].outcome)
        \/ TextLen(Strip(trace[j].outcome)) <= 50

\* the bullets of the template over the first three answers
FirstAnswersAsBullets ==
    [k \in 1..Min2(3, Len(all_results)) |->
        CleanInsight(all_results[k].response)]

\* C17: with two or more category results, when the synthesis generation
\* call fails, returns nothing or returns no more than 50 characters, the
\* unified answer is the template with one bullet for each of at most the
\* first 3 answers and a final sources line, and no external call follows
\* the synthesis call.
C17_SynthesisFallback ==
    (pc = "done" /\ Len(all_results) >= 2 /\ SynthesisCallFailed) =>
        /\ result.natural_response.form = "template"
        /\ result.natural_response.bullets = FirstAnswersAsBullets
        /\ result.natural_response.sources # <<>>
        /\ trace[Len(trace)].call = "synthesize"

\* C18: in an execution of query_user_data the embedding capability is
\* invoked at most once, before the first category search, and every
\* category search runs with the one query vector that invocation gave: a
\* vector if it succeeded, none if it failed, in which case no search
\* returns an item.
C18_SingleEmbedding ==
    /\ Cardinality(Calls("embed")) <= 1
    /\ \A i \in Calls("embed") : \A j \in Calls("search") : i < j
    /\ Made("search") =>
        /\ embed_outcome \in EmbedOutcomes
        /\ embedding = IF embed_outcome = "ok" THEN "vector" ELSE "none"
        /\ embed_outcome # "not_initialized" => Made("embed")
    /\ \A j \in Calls("search") :
        embed_outcome # "ok" => trace[j].outcome = <<>>

\* one call of the embedder followed by three category searches, two of
\* which returned items
C18_Witness ==
    /\ Cardinality(Calls("embed")) = 1
    /\ Cardinality(Calls("search")) = 3
    /\ Cardinality({j \in Calls("search") : trace[j].outcome # <<>>}) >= 2

\* the place of a category in the fixed list (moments, reflections, notes,
\* patterns, values)
Declared(index) ==
    CHOOSE k \in DOMAIN therapy_indexes : therapy_indexes[k] = index

\* the categories searched so far, in the order of their searches
Searched ==
    LET IsSearch(c) == c.call = "search"
        Index(c) == c.index
    IN  MapSeq(SelectSeq(trace, IsSearch), Index)

\* C19: the search-and-respond steps of a query run in the declaration
\* order of the fixed category list, restricted to the categories the probe
\* reported: the categories searched so far are the first of the reported
\* ones, a later search is of a later category of the list, and the
\* generation call of a category directly follows its search.
C19_ProcessingOrder ==
    /\ \A i \in Calls("search") : \A j \in Calls("search") :
        i < j => Declared(trace[i].index) < Declared(trace[j].index)
    /\ Made("search") =>
        /\ Len(Searched) <= Len(available)
        /\ Searched = Take(Keys(available), Len(Searched))
        /\ \A k \in DOMAIN available :
            ContentCount(store[available[k].index], User) > 0
    /\ \A g \in Calls("generate") :
        /\ g > 1
        /\ trace[g - 1].call = "search"
        /\ trace[g - 1].index = trace[g].index

\* a query over categories that are not neighbours in the list: moments,
\* notes and values were searched, in that order
C19_Witness ==
    /\ pc = "done"
    /\ Searched = <<"therapy_moments_index", "therapist_notes_index",
                    "user_values_index">>
    /\ Cardinality(Calls("generate")) >= 2

\* the display names of the categories, in the order of the fixed list
DisplayNames ==
    <<"Therapy Moments", "User Reflections", "Therapist Notes",
      "Behavior Patterns", "User Values">>

\* the categories whose answer survived the post-filter, in the order of
\* their generation calls
SurvivorsInOrder ==
    LET Kept(c) ==
            IF c.call = "generate"
            THEN /\ Truthy(Strip(c.outcome))
                 /\ ~is_empty_response(Strip(c.outcome))
            ELSE FALSE
        Index(c) == c.index
    IN  MapSeq(SelectSeq(trace, Kept), Index)

\* C20: on the success path data_sources of the returned result is the
\* sequence of the display names of the categories whose answers survived
\* the post-filter, one entry for each, in the order they were processed.
C20_DataSources ==
    (pc = "done" /\ result.kind = "success") =>
        /\ SurvivorsInOrder # <<>>
        /\ result.data_sources =
            MapSeq(SurvivorsInOrder, LAMBDA index : DisplayNames[Declared(index)])

\* a successful query over three categories of which the middle one gave an
\* answer the post-filter discarded
C20_Witness ==
    /\ pc = "done"
    /\ result.kind = "success"
    /\ Cardinality(Calls("generate")) = 3
    /\ Len(SurvivorsInOrder) = 2
    /\ result.data_sources = <<"User Reflections", "User Values">>

\* C21: in every result query_user_data returns, each element of
\* data_sources is the display name of one of the five fixed categories.
C21_DataSourcesAreDisplayNames ==
    pc = "done" =>
        \A k \in DOMAIN result.data_sources :
            result.data_sources[k] \in Range(DisplayNames)

\* a complete result record: a kind, an answer, a confidence between 0 and 1
\* and a sequence of data sources
WellFormed(r) ==
    /\ DOMAIN r = {"kind", "natural_response", "confidence", "data_sources"}
    /\ r.kind \in {"error", "fallback", "no_content", "no_insight", "success"}
    /\ r.natural_response.form \in
        {"error", "graphrag_unavailable", "no_content", "no_insight",
         "template", "synthesized"}
    /\ r.confidence \in 0..100
    /\ DOMAIN r.data_sources = 1..Len(r.data_sources)

\* what query_user_data has returned is well formed, and for the expected
\* conditions it is the result of that condition
OutcomeWellFormed ==
    pc = "done" =>
        /\ WellFormed(result)
        /\ OwnerNotResolved => (result.kind = "error" /\ result.confidence = 0)
        /\ (ProbeReturned /\ available = <<>>) =>
            (result.kind = "no_content" /\ result.confidence = 95)
        /\ LoopEndedEmpty =>
            (result.kind = "no_insight" /\ result.confidence = 25)

\* C22: for every combination of outcomes of its sub-steps an invocation of
\* query_user_data terminates, and it returns one complete result record
\* with confidence in [0,1]; for owner-not-found, no-data and no-insight it
\* returns the results with confidence 0.0, 0.95 and 0.25.
C22_WellFormedOutcome == []OutcomeWellFormed /\ <>(pc = "done")

\* a query that returned a success result although the search of one
\* category failed and the synthesis call failed
C22_Witness ==
    /\ pc = "done"
    /\ result.kind = "success"
    /\ \E i \in Calls("search") :
        trace[i].outcome = <<>> /\ store[trace[i].index] = OneNode
    /\ \E i \in Calls("synthesize") : trace[i].outcome = EmptyText

\* the side of the comparison response of pipeline p
SideOf(p) ==
    IF p = "custom" THEN h_response.custom_result
    ELSE h_response.official_result

\* C23: the two pipelines are started together and the response is
\* assembled only after both have finished; a side whose pipeline raised is
\* reported with confidence 0.0 and its error text, and the other side
\* carries its pipeline's answer, confidence and data sources unchanged.
C23_CompareIsolation ==
    /\ (h_pc # "idle") =>
        (h_task["custom"] = "created" <=> h_task["official"] = "created")
    /\ h_pc = "done" =>
        \A p \in Pipelines :
            /\ h_task[p] = "finished"
            /\ IF IsException(h_out[p])
               THEN /\ SideOf(p).confidence = 0
                    /\ SideOf(p).error = h_out[p].raised
                    /\ SideOf(p).data_sources = <<>>
               ELSE /\ SideOf(p).response = h_out[p].natural_response
                    /\ SideOf(p).confidence = h_out[p].confidence
                    /\ SideOf(p).data_sources = h_out[p].data_sources

\* the custom pipeline raised first and the official one then returned a
\* success result, which the response carries
C23_Witness ==
    /\ h_pc = "done"
    /\ IsException(h_out["custom"])
    /\ ~IsException(h_out["official"])
    /\ h_out["official"].kind = "success"
    /\ h_response.official_result.confidence > 0
    /\ h_response.custom_result.confidence = 0


\* C24: every answered chat request has status 200 and a non-empty
\* persona_response, however memory retrieval, prompt rendering, the
\* generation call and the memory processing ended.
C24_ChatAlwaysAnswers ==
    ch_pc = "responded" =>
        /\ ch_http.status = 200
        /\ TextLen(ch_http.persona_response) > 0


\* the retrieved items the grounding context may use: the first three
FirstThree == SubSeq(s_found, 1, Min2(3, Len(s_found)))

\* an item whose trimmed content is longer than 10 characters
Qualifies(item) == TextLen(Strip(item.content)) > 10

\* C25: for one category the generation capability is called exactly when
\* one of the first three retrieved items has trimmed content longer than 10
\* characters; otherwise the responder returns the empty string without a
\* call; the grounding context never holds more than three items.
C25_ResponderCostControl ==
    s_pc = "searched" =>
        /\ s_gen.called <=> \E i \in DOMAIN FirstThree : Qualifies(FirstThree[i])
        /\ ~s_gen.called => s_gen.text = EmptyText
        /\ s_found = <<>> => ~s_gen.called
        /\ Len(s_ctx) <= 3

\* four items were retrieved, the first three too short and the fourth
\* meaningful: no generation call was made
C25_Witness ==
    /\ s_pc = "searched"
    /\ Len(s_found) >= 4
    /\ \A i \in 1..3 : ~Qualifies(s_found[i])
    /\ Qualifies(s_found[4])
    /\ ~s_gen.called
    /\ s_gen.text = EmptyText


\* the index with the items of every other owner taken away
OwnedBy(nodes, user_id) ==
    LET Mine(n) == n.user_id = user_id
    IN  SelectSeq(nodes, Mine)

\* C27: a vector search for an owner returns the same sequence of items
\* from two stores that hold the same items of that owner and differ only
\* in items of other owners: here the index searched and the same index
\* without the other owners' items.
C27_CrossOwnerNoninterference ==
    s_pc = "searched" =>
        s_found = direct_vector_search(OwnedBy(idx, s_user), s_user,
                                       "vector", TopK, s_ok)


\* the categories of a list of category results
CategoriesOf(results) == {results[i].index : i \in DOMAIN results}

\* C26: in a success result the categories whose answers went to the
\* synthesis or to the template are the categories listed in data_sources
\* and counted by the scorer, and the "couldn't generate specific insights"
\* message is the answer only of results with confidence 0.25.
C26_SameEvidence ==
    /\ (pc = "done" /\ result.kind = "success") =>
        /\ CategoriesOf(insights) = CategoriesOf(all_results)
        /\ Len(result.data_sources) = Len(insights)
    /\ (pc = "done" /\ result.natural_response.form = "no_insight") =>
        result.confidence = 25


\* what the official service returns for the same resolved owner, the same
\* store and the same capability outcomes, when no index gives it an answer
OfficialOnSameState ==
    official_query_user_data(
        "found", llm,
        official_check_user_data_in_indexes(store, User, probe_failed), {},
        [c \in Categories |-> EmptyText], EmptyText)

\* C28: the two implementations return the same confidence when no category
\* has data for the owner, and the same confidence when categories have
\* data but none yields a usable answer.
C28_ImplementationsAgree ==
    /\ (pc = "done" /\ result.kind = "no_content") =>
        /\ OfficialOnSameState = official_create_no_data_result
        /\ result.confidence = OfficialOnSameState.confidence
    /\ (pc = "done" /\ result.kind = "no_insight") =>
        /\ OfficialOnSameState = official_no_results_result
        /\ result.confidence = OfficialOnSameState.confidence


\* the owner was resolved by the directory
OwnerResolved == trace # <<>> /\ trace[1].outcome = "found"

\* C29: when the generation capability was not configured at construction,
\* the query for a resolved owner returns the fallback result with
\* confidence exactly 0.1 and makes no probe, no embedding call, no vector
\* search and no generation call.
C29_GenerationUnavailableFallback ==
    (~llm /\ OwnerResolved) =>
        /\ ~Made("probe")
        /\ ~Made("embed")
        /\ ~Made("search")
        /\ ~Made("generate")
        /\ ~Made("synthesize")
        /\ pc = "done" =>
            /\ result.kind = "fallback"
            /\ result.natural_response.form = "graphrag_unavailable"
            /\ result.confidence = 10

\* the fallback was returned for an owner who has embedded content, which
\* was never probed
C29_Witness ==
    /\ pc = "done"
    /\ ~llm
    /\ OwnerResolved
    /\ result.kind = "fallback"
    /\ result.confidence = 10
    /\ \E c \in Categories : ContentCount(store[c], User) > 0
    /\ Len(trace) = 1


\* no driver opened for the request is still open
DriversClosed(request) == \A driver \in d_open : driver.request # request

\* C30: every driver opened when a service is constructed for a query or
\* compare request is eventually closed once the request has completed.
C30_NoDriverLeak ==
    \A request \in 1..MaxRequests :
        (request \in d_done) ~> DriversClosed(request)

============================================================================
